---- MODULE Spec2Model ----
(***************************************************************************)
(* Model of src/src/blockchain/chain.rs: the Chain aggregate (block store, *)
(* identity-indexed transaction store, cached head / last full block) and  *)
(* the block admission control check_new_block with the locker election    *)
(* get_block_locker.                                                       *)
(*                                                                         *)
(* Option<T> is modelled as a sequence of length at most one: <<>> is None *)
(* and <<x>> is Some(x).                                                   *)
(*                                                                         *)
(* A block is a record                                                     *)
(*   [index, timestamp, difficulty, hash, pub_key, transaction,            *)
(*    pow_ok, hash_ok, sig_ok]                                             *)
(* where transaction is an Option of [identity, pub_key] and the three     *)
(* flags are the answers of the external primitives hash_is_good,          *)
(* check_block_hash and check_block_signature for that block.  The fields  *)
(* version, random, nonce, prev_block_hash and signature are only stored   *)
(* and never read by chain.rs, so they are left out.  A hash is a small    *)
(* number; 0 is the all-zero hash, and two blocks may carry the same hash. *)
(* u64 arithmetic wraps modulo 2^WordBits, as in a release build.          *)
(*                                                                         *)
(* store is "ok" while sqlite answers.  "prepare_err" stands for a         *)
(* connection whose prepare() returns Err, "step_err" for one whose        *)
(* prepare() succeeds and whose Statement::next() returns Err.             *)
(***************************************************************************)
EXTENDS Integers, Sequences, FiniteSets, TLC

VARIABLES
    origin,          \* Chain.origin: configured genesis hash, 0 = unset
    blocks,          \* Chain.blocks: in-memory Vec<Block>
    last_block,      \* Chain.last_block: Option<Block>
    last_full_block, \* Chain.last_full_block: Option<Block>
    max_height,      \* Chain.max_height
    zones,           \* Chain.zones: cache of confirmed zones
    db_blocks,       \* table blocks: set of rows, id is the primary key
    db_transactions, \* table transactions: rows in autoincrement order
    store,           \* health of the sqlite connection: "ok", or the call that fails
    now,             \* wall clock read by Utc::now()
    accepted,        \* history: blocks appended after a Good verdict
    lock,            \* owner of the chain's critical section, 0 = free
    pending,         \* per caller: Option of the validated block and its verdict
    running          \* FALSE after the process died inside add_block

chain_vars == <<origin, blocks, last_block, last_full_block, max_height, zones>>
db_vars == <<db_blocks, db_transactions, store>>
caller_vars == <<lock, pending>>
vars == <<origin, blocks, last_block, last_full_block, max_height, zones,
          db_blocks, db_transactions, store, now, accepted, lock, pending,
          running>>

-----------------------------------------------------------------------------
(* Bounds of the model *)

MaxHeight == 2      \* Spec appends blocks up to this index
LockerHeight == 3   \* SpecMined appends blocks up to this index
CallersHeight == 1  \* SpecCallers appends blocks up to this index
FaultsHeight == 1   \* SpecFaults appends blocks up to this index
ZonesHeight == 2    \* SpecZones appends blocks up to this index
ElectionHeight == 5 \* SpecElection appends blocks up to this index
MaxDomainLen == 5   \* domain names have at most this many characters
MaxIndex == 4       \* largest index a candidate may carry
MaxTime == 1        \* the clock and the candidates' timestamps range over 0..MaxTime
MaxHash == 1        \* hashes range over 0..MaxHash, 0 is the all-zero hash
MaxDifficulty == 1  \* declared difficulties range over 0..MaxDifficulty
WordBits == 4       \* width of the machine word standing for u64

Keys == {"K1", "K2"}
Identities == {"H1"}
Callers == {1, 2}

(* Constants of blockchain/constants.rs *)
BLOCK_DIFFICULTY == 1
LOCKER_DIFFICULTY == 0
LOCKER_BLOCK_START == 3
LOCKER_BLOCK_COUNT == 2
LOCKER_BLOCK_INTERVAL == 1

None == <<>>
Some(x) == <<x>>

U64 == 2 ^ WordBits

Transactions == [identity : Identities, pub_key : Keys]

Blocks ==
    [index : 0..MaxIndex,
     timestamp : 0..MaxTime,
     difficulty : 0..MaxDifficulty,
     hash : 0..MaxHash,
     pub_key : Keys,
     transaction : {None} \cup { Some(t) : t \in Transactions },
     pow_ok : BOOLEAN,
     hash_ok : BOOLEAN,
     sig_ok : BOOLEAN]

(* what a miner declares: the minimum for the kind of block *)
DeclaredDifficulty(b) ==
    IF b.transaction = None THEN LOCKER_DIFFICULTY ELSE BLOCK_DIFFICULTY

(* number of defects of a block: a difficulty other than the declared one   *)
(* and each external check that fails                                       *)
Defects(b) ==
    (IF b.difficulty # DeclaredDifficulty(b) THEN 1 ELSE 0)
    + (IF b.pow_ok THEN 0 ELSE 1)
    + (IF b.hash_ok THEN 0 ELSE 1)
    + (IF b.sig_ok THEN 0 ELSE 1)

(* The candidate blocks a caller may submit: at most one defect each.       *)
Candidates == { b \in Blocks : Defects(b) <= 1 }

(* Candidates as an honest miner produces them: no defect, and a            *)
(* transaction owned by the key that signs the block.                       *)
MinedCandidates ==
    { b \in Candidates :
        /\ Defects(b) = 0
        /\ b.transaction # None => b.transaction[1].pub_key = b.pub_key }

-----------------------------------------------------------------------------
(* External primitives (blockchain/hash_utils.rs, Block, Bytes) *)

hash_is_good(block) == block.pow_ok
check_block_hash(block) == block.hash_ok
check_block_signature(block) == block.sig_ok
is_genesis(block) == block.index = 0 /\ block.transaction = None
is_zero(hash) == hash = 0
get_tail_u64(hash) == hash % U64

(* Domain names are strings over a letter and the dot, as sequences of     *)
(* characters.                                                              *)
DomainChars == {"a", "."}
Domains == UNION { [1..n -> DomainChars] : n \in 0..MaxDomainLen }

(* the digests hash_identity can give *)
DigestNames == <<"H1", "H2", "H3">>

CharCode(ch) == IF ch = "a" THEN 1 ELSE 2

(* a digest of the whole string: many names, few digests *)
RECURSIVE Digest(_)
Digest(name) ==
    IF Len(name) = 0 THEN 0
    ELSE (2 * Digest(SubSeq(name, 1, Len(name) - 1)) + CharCode(name[Len(name)]))
             % Len(DigestNames)

(* the digest of every name, computed once *)
DigestOf == [name \in Domains |-> DigestNames[1 + Digest(name)]]

(* hash_identity(name, None) *)
hash_identity(name) == DigestOf[name]

(* str::contains *)
contains(name, ch) == \E i \in 1..Len(name) : name[i] = ch

(* str::rsplitn(2, "."): the part after the last dot first, then the part   *)
(* before it; the whole string alone when it has no dot                     *)
rsplitn_2(name) ==
    IF ~contains(name, ".") THEN <<name>>
    ELSE LET p == CHOOSE i \in 1..Len(name) :
                      /\ name[i] = "."
                      /\ \A j \in (i + 1)..Len(name) : name[j] # "."
         IN  <<SubSeq(name, p + 1, Len(name)), SubSeq(name, 1, p - 1)>>

-----------------------------------------------------------------------------
(* Store reads *)

(* SELECT * FROM blocks WHERE id=? LIMIT 1; a prepare() that fails is      *)
(* answered None, like a missing row                                        *)
get_block(index) ==
    IF store = "prepare_err" THEN None
    ELSE IF \E r \in db_blocks : r.index = index
    THEN Some(CHOOSE r \in db_blocks : r.index = index)
    ELSE None

(* SELECT * FROM blocks WHERE `transaction`<>'' ORDER BY id DESC LIMIT 1 *)
get_last_full_block ==
    LET full == { r \in db_blocks : r.transaction # None } IN
    IF store = "prepare_err" THEN None
    ELSE IF full = {} THEN None
    ELSE Some(CHOOSE r \in full : \A q \in full : q.index <= r.index)

(* SELECT * FROM blocks ORDER BY id DESC LIMIT 1 *)
get_head ==
    IF db_blocks = {} THEN None
    ELSE Some(CHOOSE r \in db_blocks : \A q \in db_blocks : q.index <= r.index)

(* positions of the rows of table transactions recorded for an identity *)
RowsOf(identity) ==
    { i \in 1..Len(db_transactions) : db_transactions[i].identity = identity }

(* SELECT pub_key FROM transactions WHERE identity = ? ORDER BY id DESC LIMIT 1 *)
public_key_by_id(identity) ==
    LET rows == RowsOf(identity) IN
    IF rows = {} THEN None
    ELSE Some(db_transactions[CHOOSE i \in rows : \A j \in rows : j <= i].pub_key)

is_id_available(identity, public_key) ==
    LET row == public_key_by_id(identity) IN
    IF row # None /\ row[1] # public_key THEN FALSE ELSE TRUE

-----------------------------------------------------------------------------
(* Zones and domains *)

(* SELECT identity FROM transactions WHERE identity = ? ORDER BY id DESC    *)
(* LIMIT 1 finds a row                                                      *)
id_by_id_found(identity) == RowsOf(identity) # {}

(* answer of is_zone_in_blockchain: a hit in the cache, or a row in the     *)
(* store                                                                    *)
is_zone_in_blockchain(zone) ==
    IF zone \in zones THEN TRUE
    ELSE id_by_id_found(hash_identity(zone))

(* an is_zone_in_blockchain that notes every zone it is asked about *)
is_zone_in_blockchain_noting_all(zone) == zones' = zones \cup {zone}

(* what is_zone_in_blockchain does to the cache: a zone found in the store  *)
(* is inserted                                                              *)
is_zone_in_blockchain_effect(zone) ==
    zones' = IF zone \notin zones /\ id_by_id_found(hash_identity(zone))
             THEN zones \cup {zone} ELSE zones

(* is_domain_available without the test on the part before the last dot *)
is_domain_available_any_depth(domain, public_key) ==
    IF Len(domain) = 0 THEN FALSE
    ELSE IF ~is_id_available(hash_identity(domain), public_key) THEN FALSE
    ELSE LET parts == rsplitn_2(domain) IN
         IF Len(parts) > 1
         THEN is_zone_in_blockchain(parts[1])
         ELSE TRUE

(* answer of is_domain_available for the key of the keystore *)
is_domain_available(domain, public_key) ==
    IF Len(domain) = 0 THEN FALSE
    ELSE IF ~is_id_available(hash_identity(domain), public_key) THEN FALSE
    ELSE LET parts == rsplitn_2(domain) IN
         IF Len(parts) > 1
         THEN IF contains(parts[Len(parts)], ".") THEN FALSE
              ELSE is_zone_in_blockchain(parts[1])
         ELSE TRUE

(* what is_domain_available does to the cache: the call of                  *)
(* is_zone_in_blockchain it ends with, when it gets there                   *)
is_domain_available_effect(domain, public_key) ==
    LET parts == rsplitn_2(domain) IN
    IF /\ Len(domain) # 0
       /\ is_id_available(hash_identity(domain), public_key)
       /\ Len(parts) > 1
       /\ ~contains(parts[Len(parts)], ".")
    THEN is_zone_in_blockchain_effect(parts[1])
    ELSE UNCHANGED zones

-----------------------------------------------------------------------------
(* Locker election, get_block_locker *)

(* ((timestamp - block.timestamp) / LOCKER_BLOCK_INTERVAL) as u64: the      *)
(* signed division truncates toward zero, the cast reduces modulo 2^64.     *)
locker_intervals(block, timestamp) ==
    LET d == timestamp - block.timestamp
        q == IF d >= 0 THEN d \div LOCKER_BLOCK_INTERVAL
             ELSE 0 - ((0 - d) \div LOCKER_BLOCK_INTERVAL)
    IN  q % U64

(* 1 + ((tail + tail * intervals) % (block.index - 2)) in wrapping u64      *)
locker_start_index(block, timestamp) ==
    LET intervals == locker_intervals(block, timestamp)
        tail == get_tail_u64(block.hash)
        sum == (tail + ((tail * intervals) % U64)) % U64
    IN  (1 + (sum % (block.index - 2))) % U64

(* for index in start_index..block.index: first stored block of another owner *)
locker_scan(block, start_index) ==
    LET others == { i \in start_index..(block.index - 1) :
                      /\ get_block(i) # None
                      /\ get_block(i)[1].pub_key # block.pub_key }
    IN  IF others = {} THEN None
        ELSE Some(get_block(CHOOSE i \in others : \A j \in others : i <= j)[1].pub_key)

get_block_locker(block, timestamp) ==
    IF is_zero(block.hash) THEN None
    ELSE IF block.index < LOCKER_BLOCK_START THEN None
    ELSE IF /\ get_last_full_block # None
            /\ get_last_full_block[1].index + LOCKER_BLOCK_COUNT <= block.index
         THEN None
    ELSE locker_scan(block, locker_start_index(block, timestamp))

-----------------------------------------------------------------------------
(* Admission control, check_new_block *)

required_difficulty(block) ==
    IF block.transaction = None THEN LOCKER_DIFFICULTY ELSE BLOCK_DIFFICULTY

(* rules on the candidate alone, with a block required to be older than    *)
(* the clock                                                                *)
check_block_itself_aged(block) ==
    /\ block.timestamp < now
    /\ ~(block.difficulty < required_difficulty(block))
    /\ hash_is_good(block)
    /\ check_block_hash(block)
    /\ check_block_signature(block)

(* rules on the candidate alone: timestamp, difficulty, hash, signature *)
check_block_itself(block) ==
    /\ ~(block.timestamp > now)
    /\ ~(block.difficulty < required_difficulty(block))
    /\ hash_is_good(block)
    /\ check_block_hash(block)
    /\ check_block_signature(block)

(* identity spoof rule *)
check_identity(block) ==
    IF block.transaction # None
    THEN is_id_available(block.transaction[1].identity, block.pub_key)
    ELSE TRUE

(* check_without_head accepting any genesis, whatever the configured origin *)
check_without_head_any_origin(block) ==
    IF ~is_genesis(block) THEN "Future" ELSE "Good"

(* no local head: genesis and origin rules *)
check_without_head(block) ==
    IF ~is_genesis(block) THEN "Future"
    ELSE IF ~is_zero(origin) /\ block.hash # origin THEN "Bad"
    ELSE "Good"

(* check_existing looking only below the head: < in place of <= *)
check_existing_below_head(block, last) ==
    IF block.index < last.index
    THEN IF last.hash = block.hash THEN "Twin"
         ELSE IF get_block(block.index) # None
              THEN IF get_block(block.index)[1].hash # block.hash
                   THEN "Fork" ELSE "Twin"
              ELSE ""
    ELSE ""

(* check_existing with the comparison of the stored hash inverted *)
check_existing_inverted(block, last) ==
    IF block.index <= last.index
    THEN IF last.hash = block.hash THEN "Twin"
         ELSE IF get_block(block.index) # None
              THEN IF get_block(block.index)[1].hash = block.hash
                   THEN "Fork" ELSE "Twin"
              ELSE ""
    ELSE ""

(* block.index <= last_block.index: Twin, Fork or "" when nothing decides *)
check_existing(block, last) ==
    IF block.index <= last.index
    THEN IF last.hash = block.hash THEN "Twin"
         ELSE IF get_block(block.index) # None
              THEN IF get_block(block.index)[1].hash # block.hash
                   THEN "Fork" ELSE "Twin"
              ELSE ""
    ELSE ""

(* check_locker comparing the elected key with the owner of the head *)
check_locker_against_head(block, last) ==
    IF block.transaction = None
    THEN LET locker == get_block_locker(last, block.timestamp) IN
         IF locker # None /\ locker[1] # last.pub_key THEN "Bad" ELSE "Good"
    ELSE "Good"

(* locker rule for a block without transaction *)
check_locker(block, last) ==
    IF block.transaction = None
    THEN LET locker == get_block_locker(last, block.timestamp) IN
         IF locker # None /\ locker[1] # block.pub_key THEN "Bad" ELSE "Good"
    ELSE "Good"

(* check_with_head with the gap test off by one *)
check_with_head_gap_off_by_one(block, last) ==
    IF block.timestamp < last.timestamp /\ block.index > last.index THEN "Bad"
    ELSE IF last.index + 2 < block.index THEN "Future"
    ELSE IF check_existing(block, last) # "" THEN check_existing(block, last)
    ELSE check_locker(block, last)

(* the rules before the locker rule without the test on the timestamp *)
check_linkage_without_age_test(block, last) ==
    IF last.index + 1 < block.index THEN "Future"
    ELSE check_existing(block, last)

(* the rules before the locker rule without the test for a gap *)
check_linkage_without_gap_test(block, last) ==
    IF block.timestamp < last.timestamp /\ block.index > last.index THEN "Bad"
    ELSE check_existing(block, last)

(* local head exists: the rules before the locker rule; "" when none of    *)
(* them decides and the candidate goes on to the locker rule                *)
check_linkage(block, last) ==
    IF block.timestamp < last.timestamp /\ block.index > last.index THEN "Bad"
    ELSE IF last.index + 1 < block.index THEN "Future"
    ELSE check_existing(block, last)

(* local head exists *)
check_with_head(block, last) ==
    IF check_linkage(block, last) # "" THEN check_linkage(block, last)
    ELSE check_locker(block, last)

check_new_block(block) ==
    IF ~check_block_itself(block) THEN "Bad"
    ELSE IF ~check_identity(block) THEN "Bad"
    ELSE IF last_block = None THEN check_without_head(block)
    ELSE check_with_head(block, last_block[1])

(* BlockQuality *)
Verdicts == {"Good", "Bad", "Fork", "Twin", "Future"}

(* the call reaches a read of the store: is_id_available for a block with a *)
(* transaction; for a locker block get_block on an index at or below the    *)
(* head that does not carry the head's hash, or else get_last_full_block in *)
(* get_block_locker when the head is old enough for an election             *)
check_new_block_reads(block) ==
    IF ~check_block_itself(block) THEN FALSE
    ELSE IF block.transaction # None THEN TRUE
    ELSE IF last_block = None THEN FALSE
    ELSE LET last == last_block[1] IN
         IF block.timestamp < last.timestamp /\ block.index > last.index THEN FALSE
         ELSE IF last.index + 1 < block.index THEN FALSE
         ELSE IF block.index <= last.index THEN last.hash # block.hash
         ELSE ~is_zero(last.hash) /\ last.index >= LOCKER_BLOCK_START

(* the call dies in an unwrap: is_id_available unwraps prepare() and next(), *)
(* get_block and get_last_full_block unwrap next() only                     *)
check_new_block_panics(block) ==
    /\ check_new_block_reads(block)
    /\ \/ store = "step_err"
       \/ store = "prepare_err" /\ block.transaction # None

(* how a call of check_new_block ends: with a verdict, or in a panic *)
check_new_block_outcome(block) ==
    IF check_new_block_panics(block) THEN "Panic" ELSE check_new_block(block)

(* a validator that notes the height of the candidate it is shown *)
check_new_block_noting_height(block) ==
    /\ max_height' = IF block.index > max_height THEN block.index ELSE max_height
    /\ UNCHANGED <<origin, blocks, last_block, last_full_block, zones,
                   db_blocks, db_transactions>>

(* what a call of check_new_block does to the chain: it takes &self, and    *)
(* the reads it makes (is_id_available, get_block, get_block_locker,        *)
(* get_last_full_block) assign no field and run no INSERT                   *)
check_new_block_effect(block) ==
    UNCHANGED <<origin, blocks, last_block, last_full_block, max_height, zones,
                db_blocks, db_transactions>>

-----------------------------------------------------------------------------
(* Appending, add_block *)

(* INSERT INTO blocks: fails when a row with this id exists (primary key)   *)
(* or when sqlite fails                                                     *)
add_block_to_table_ok(block) ==
    store = "ok" /\ \A r \in db_blocks : r.index # block.index

add_block(block) ==
    LET stored == add_block_to_table_ok(block) IN
    /\ blocks' = Append(blocks, block)
    /\ last_block' = Some(block)
    /\ last_full_block' = IF block.transaction # None THEN Some(block)
                          ELSE last_full_block
    /\ db_blocks' = IF stored THEN db_blocks \cup {block} ELSE db_blocks
    /\ db_transactions' = IF stored /\ block.transaction # None
                          THEN Append(db_transactions, block.transaction[1])
                          ELSE db_transactions
    /\ UNCHANGED <<origin, max_height, zones, store>>

-----------------------------------------------------------------------------
(* The sequential system: one caller validates and appends in one step *)

Init ==
    /\ origin \in 0..1
    /\ blocks = <<>>
    /\ last_block = None
    /\ last_full_block = None
    /\ max_height = 0
    /\ zones = {}
    /\ db_blocks = {}
    /\ db_transactions = <<>>
    /\ store = "ok"
    /\ now = 0
    /\ accepted = {}
    /\ lock = 0
    /\ pending = [c \in Callers |-> None]
    /\ running = TRUE

(* the wall clock advances *)
Tick ==
    /\ now < MaxTime
    /\ now' = now + 1
    /\ UNCHANGED <<chain_vars, db_vars, accepted, caller_vars, running>>

(* the chain may still grow: the head is below the bound of the model *)
HeadBelow(limit) ==
    IF last_block = None THEN TRUE ELSE last_block[1].index < limit

(* a caller validates a candidate, gets Good and appends it; limit bounds   *)
(* the index of the head                                                    *)
Accept(block, limit) ==
    /\ running
    /\ lock = 0
    /\ HeadBelow(limit)
    /\ check_new_block(block) = "Good"
    /\ add_block(block)
    /\ accepted' = accepted \cup {block}
    /\ UNCHANGED <<now, caller_vars, running>>

Next ==
    \/ Tick
    \/ \E block \in Candidates : Accept(block, MaxHeight)

Spec == Init /\ [][Next]_vars

(* The same system fed by honest miners only, on a longer chain *)
NextMined ==
    \/ Tick
    \/ \E block \in MinedCandidates : Accept(block, LockerHeight)

SpecMined == Init /\ [][NextMined]_vars

-----------------------------------------------------------------------------
(* A chain of locker blocks, long enough for elections over three blocks    *)
(* and more, with hashes whose tail is small or has the top bit set         *)

TailHashes == {1, U64 \div 2}

ElectionCandidates ==
    [index : 0..ElectionHeight,
     timestamp : 0..MaxTime,
     difficulty : {LOCKER_DIFFICULTY},
     hash : TailHashes,
     pub_key : Keys,
     transaction : {None},
     pow_ok : {TRUE}, hash_ok : {TRUE}, sig_ok : {TRUE}]

NextElection ==
    \/ Tick
    \/ \E block \in ElectionCandidates : Accept(block, ElectionHeight)

SpecElection == Init /\ [][NextElection]_vars

-----------------------------------------------------------------------------
(* The same system on an sqlite connection that can fail *)

StoreFailures == {"prepare_err", "step_err"}

(* sqlite starts to fail (file locked by another process, I/O error,        *)
(* table missing or damaged)                                                *)
StoreFails(failure) ==
    /\ store = "ok"
    /\ store' = failure
    /\ UNCHANGED <<chain_vars, db_blocks, db_transactions, now, accepted,
                   caller_vars, running>>

StoreRecovers ==
    /\ store # "ok"
    /\ store' = "ok"
    /\ UNCHANGED <<chain_vars, db_blocks, db_transactions, now, accepted,
                   caller_vars, running>>

(* a caller validates a candidate, the call returns Good and the caller     *)
(* appends the block; limit bounds the index of the head and, as the head   *)
(* can move back while reads fail, the number of appends                    *)
AcceptOutcome(block, limit) ==
    /\ Len(blocks) <= limit
    /\ check_new_block_outcome(block) = "Good"
    /\ Accept(block, limit)

NextFaults ==
    \/ Tick
    \/ \E block \in MinedCandidates : AcceptOutcome(block, FaultsHeight)
    \/ \E failure \in StoreFailures : StoreFails(failure)
    \/ StoreRecovers

SpecFaults == Init /\ [][NextFaults]_vars

-----------------------------------------------------------------------------
(* The process dies inside add_block, and is started again *)

(* the places where add_block can stop for good: before the INSERT into     *)
(* blocks is done, or after it and before the INSERT into transactions is   *)
(* done (power loss, kill, or the expect on add_transaction_to_table)       *)
CrashPoints == {"before_block_insert", "after_block_insert"}

(* what add_block leaves in the store when it stops at point *)
add_block_dies(block, point) ==
    /\ db_blocks' = IF point = "after_block_insert" /\ add_block_to_table_ok(block)
                    THEN db_blocks \cup {block} ELSE db_blocks
    /\ UNCHANGED db_transactions
    /\ blocks' = <<>>
    /\ last_block' = None
    /\ last_full_block' = None
    /\ max_height' = 0
    /\ zones' = {}
    /\ UNCHANGED <<origin, store>>

(* an init_db that takes the last full block from the head alone *)
init_db_head_only ==
    /\ blocks' = <<>>
    /\ zones' = {}
    /\ IF get_head # None
       THEN /\ max_height' = get_head[1].index
            /\ last_block' = get_head
            /\ last_full_block' = IF get_head[1].transaction # None
                                  THEN get_head ELSE None
       ELSE /\ max_height' = 0
            /\ last_block' = None
            /\ last_full_block' = None
    /\ UNCHANGED <<origin, db_vars>>

(* Chain::new on the existing database: init_db loads the caches *)
init_db ==
    /\ blocks' = <<>>
    /\ zones' = {}
    /\ IF get_head # None
       THEN /\ max_height' = get_head[1].index
            /\ last_block' = get_head
            /\ last_full_block' = IF get_head[1].transaction # None
                                  THEN get_head ELSE get_last_full_block
       ELSE /\ max_height' = 0
            /\ last_block' = None
            /\ last_full_block' = None
    /\ UNCHANGED <<origin, db_vars>>

(* a candidate is classified Good and the process dies while appending it *)
AcceptAndDie(block, limit) ==
    /\ running
    /\ lock = 0
    /\ HeadBelow(limit)
    /\ check_new_block(block) = "Good"
    /\ \E point \in CrashPoints : add_block_dies(block, point)
    /\ running' = FALSE
    /\ UNCHANGED <<now, accepted, caller_vars>>

Restart ==
    /\ ~running
    /\ init_db
    /\ running' = TRUE
    /\ UNCHANGED <<now, accepted, caller_vars>>

NextCrash ==
    \/ Tick
    \/ \E block \in MinedCandidates : Accept(block, MaxHeight)
    \/ \E block \in MinedCandidates : AcceptAndDie(block, MaxHeight)
    \/ Restart

SpecCrash == Init /\ [][NextCrash]_vars

-----------------------------------------------------------------------------
(* Registrations and the queries on zones and domains, with restarts *)

ZoneTransactions ==
    [identity : { hash_identity(d) : d \in Domains }, pub_key : Keys]

(* honest blocks of the first instant that register names *)
ZoneCandidates ==
    { b \in [index : 0..ZonesHeight,
             timestamp : {0},
             difficulty : 0..MaxDifficulty,
             hash : {1},
             pub_key : Keys,
             transaction : {None} \cup { Some(t) : t \in ZoneTransactions },
             pow_ok : {TRUE}, hash_ok : {TRUE}, sig_ok : {TRUE}] :
        /\ b.difficulty = DeclaredDifficulty(b)
        /\ b.transaction # None => b.transaction[1].pub_key = b.pub_key }

(* the names without a dot: what can be asked as a zone *)
ZoneNames == { d \in Domains : ~contains(d, ".") }

(* a reader asks whether a zone is registered *)
QueryZone(zone) ==
    /\ running
    /\ is_zone_in_blockchain_effect(zone)
    /\ UNCHANGED <<origin, blocks, last_block, last_full_block, max_height,
                   db_vars, now, accepted, caller_vars, running>>

(* a reader asks whether a domain can be mined with a key *)
QueryDomain(domain, public_key) ==
    /\ running
    /\ is_domain_available_effect(domain, public_key)
    /\ UNCHANGED <<origin, blocks, last_block, last_full_block, max_height,
                   db_vars, now, accepted, caller_vars, running>>

NextZones ==
    \/ \E block \in ZoneCandidates : Accept(block, ZonesHeight)
    \/ \E block \in ZoneCandidates : AcceptAndDie(block, ZonesHeight)
    \/ Restart
    \/ \E zone \in ZoneNames : QueryZone(zone)
    \/ \E domain \in Domains : \E public_key \in Keys :
           QueryDomain(domain, public_key)

SpecZones == Init /\ [][NextZones]_vars

-----------------------------------------------------------------------------
(* Appends, restarts and the heights reported by peers *)

(* Chain::height: the index of the cached head, 0 without one *)
height == IF last_block = None THEN 0 ELSE last_block[1].index

(* Chain::update_max_height *)
update_max_height(peer_height) ==
    /\ max_height' = IF peer_height > max_height THEN peer_height ELSE max_height
    /\ UNCHANGED <<origin, blocks, last_block, last_full_block, zones>>

(* a peer reports its height *)
UpdateMaxHeight(peer_height) ==
    /\ running
    /\ update_max_height(peer_height)
    /\ UNCHANGED <<db_vars, now, accepted, caller_vars, running>>

NextHeights ==
    \/ Tick
    \/ \E block \in MinedCandidates : Accept(block, MaxHeight)
    \/ \E block \in MinedCandidates : AcceptAndDie(block, MaxHeight)
    \/ Restart
    \/ \E peer_height \in 0..MaxIndex : UpdateMaxHeight(peer_height)

SpecHeights == Init /\ [][NextHeights]_vars

-----------------------------------------------------------------------------
(* Two callers, each holding the chain's lock from validation to append *)

(* candidates of the callers: honest blocks of the first instant *)
CallerCandidates ==
    { b \in MinedCandidates : b.timestamp = 0 /\ b.index <= CallersHeight + 1 }

(* callers that validate without taking the lock *)
may_enter_unlocked(c) == TRUE

(* a caller may start validating when no other caller is inside *)
may_enter(c) == lock = 0

(* a candidate reaches a caller (mined locally or received from a peer) *)
Receive(c, block) ==
    /\ running
    /\ pending[c] = None
    /\ pending' = [pending EXCEPT ![c] = Some([block |-> block, quality |-> ""])]
    /\ UNCHANGED <<chain_vars, db_vars, now, accepted, lock, running>>

(* the caller enters the critical section and validates its candidate *)
Validate(c) ==
    /\ pending[c] # None
    /\ pending[c][1].quality = ""
    /\ may_enter(c)
    /\ lock' = c
    /\ pending' = [pending EXCEPT ![c] =
           Some([block |-> pending[c][1].block,
                 quality |-> check_new_block(pending[c][1].block)])]
    /\ check_new_block_effect(pending[c][1].block)
    /\ UNCHANGED <<store, now, accepted, running>>

(* on Good the caller appends and leaves the critical section *)
Append_(c) ==
    /\ pending[c] # None
    /\ pending[c][1].quality = "Good"
    /\ HeadBelow(CallersHeight)
    /\ add_block(pending[c][1].block)
    /\ accepted' = accepted \cup {pending[c][1].block}
    /\ lock' = 0
    /\ pending' = [pending EXCEPT ![c] = None]
    /\ UNCHANGED <<now, running>>

(* on any other verdict the caller drops the candidate and leaves *)
Discard(c) ==
    /\ pending[c] # None
    /\ pending[c][1].quality \notin {"", "Good"}
    /\ lock' = 0
    /\ pending' = [pending EXCEPT ![c] = None]
    /\ UNCHANGED <<chain_vars, db_vars, now, accepted, running>>

NextCallers ==
    \/ \E c \in Callers : \E block \in CallerCandidates : Receive(c, block)
    \/ \E c \in Callers : Validate(c)
    \/ \E c \in Callers : Append_(c)
    \/ \E c \in Callers : Discard(c)

SpecCallers == Init /\ [][NextCallers]_vars

-----------------------------------------------------------------------------
(* Helpers of the properties *)

(* the candidate passes rules 1 to 6 of the validator *)
PassesOwnRules(c) == check_block_itself(c) /\ check_identity(c)

(* owner keys recorded for an identity, in any row *)
OwnersOf(identity) == { db_transactions[i].pub_key : i \in RowsOf(identity) }

-----------------------------------------------------------------------------
(* C1: every block that was accepted and appended is classified Twin when   *)
(* it is submitted again unchanged, in every later state.                   *)
TwinDetection == \A b \in accepted : check_new_block(b) = "Twin"

(* C2: once an owner other than the requester is recorded for an identity,  *)
(* is_id_available(identity, requester) is false in every later state.      *)
IdentityMonotonic ==
    \A h \in Identities : \A k \in Keys :
        (OwnersOf(h) \ {k} # {}) => ~is_id_available(h, k)

(* C3: appending only Good blocks, all owners recorded for one identity are *)
(* the same key.                                                            *)
FirstRegistrantWins == \A h \in Identities : Cardinality(OwnersOf(h)) <= 1

(* C4: when identity H has a recorded transaction owned by K1, every full   *)
(* candidate claiming H that is signed and owned by another key is Bad.     *)
IdentitySpoofIsBad ==
    \A c \in Candidates :
        ( /\ c.transaction # None
          /\ c.transaction[1].pub_key = c.pub_key
          /\ OwnersOf(c.transaction[1].identity) \ {c.pub_key} # {} )
        => check_new_block(c) = "Bad"

(* the stored block at the candidate's index has another hash *)
StoredWithOtherHash(c) ==
    /\ get_block(c.index) # None
    /\ get_block(c.index)[1].hash # c.hash

(* C5 as stated: a candidate at the index of a stored block with another    *)
(* hash is classified Fork.                                                 *)
ForkDetection ==
    \A c \in Candidates : StoredWithOtherHash(c) => check_new_block(c) = "Fork"

(* C5 amended: a candidate that passes the timestamp, difficulty, hash,     *)
(* signature and identity rules, sits at the index of a stored block with   *)
(* another hash and does not carry the hash of the head is classified Fork. *)
ForkDetectionOfValid ==
    \A c \in Candidates :
        ( /\ PassesOwnRules(c)
          /\ StoredWithOtherHash(c)
          /\ last_block # None
          /\ last_block[1].hash # c.hash )
        => check_new_block(c) = "Fork"

(* C5 witness: a valid candidate below the head is classified Fork *)
ForkDetected ==
    \E c \in Candidates :
        /\ PassesOwnRules(c)
        /\ StoredWithOtherHash(c)
        /\ last_block # None
        /\ c.index < last_block[1].index
        /\ last_block[1].hash # c.hash
        /\ check_new_block(c) = "Fork"

(* C6 as stated: with a head at index h every candidate above h + 1 is      *)
(* classified Future.                                                       *)
FutureGap ==
    \A c \in Candidates :
        (last_block # None /\ c.index > last_block[1].index + 1)
        => check_new_block(c) = "Future"

(* C6 amended: with a head at index h, every candidate above h + 1 that     *)
(* passes the timestamp, difficulty, hash, signature and identity rules and *)
(* is not older than the head is classified Future.                         *)
FutureGapOfValid ==
    \A c \in Candidates :
        ( /\ last_block # None
          /\ c.index > last_block[1].index + 1
          /\ PassesOwnRules(c)
          /\ c.timestamp >= last_block[1].timestamp )
        => check_new_block(c) = "Future"

(* C6 witness: a valid candidate two above the head is classified Future *)
FutureGapSeen ==
    /\ last_block # None
    /\ \E c \in Candidates :
        /\ c.index = last_block[1].index + 2
        /\ PassesOwnRules(c)
        /\ c.timestamp >= last_block[1].timestamp
        /\ check_new_block(c) = "Future"

(* C7 as stated: with no head and a non-zero origin O, a genesis that       *)
(* passes the rules on the block is Bad when its hash differs from O and    *)
(* Good when it equals O; a non-genesis candidate is Future.                *)
GenesisOrigin ==
    (last_block = None /\ ~is_zero(origin)) =>
        \A c \in Candidates :
            /\ (is_genesis(c) /\ PassesOwnRules(c) /\ c.hash # origin)
                   => check_new_block(c) = "Bad"
            /\ (is_genesis(c) /\ PassesOwnRules(c) /\ c.hash = origin)
                   => check_new_block(c) = "Good"
            /\ ~is_genesis(c) => check_new_block(c) = "Future"

(* C7 amended: the same, where the non-genesis candidate too passes the     *)
(* timestamp, difficulty, hash, signature and identity rules.               *)
GenesisOriginOfValid ==
    (last_block = None /\ ~is_zero(origin)) =>
        \A c \in Candidates :
            PassesOwnRules(c) =>
                check_new_block(c) =
                    IF ~is_genesis(c) THEN "Future"
                    ELSE IF c.hash # origin THEN "Bad" ELSE "Good"

(* C7 witness: an empty chain with an origin, where the three verdicts occur *)
GenesisOriginSeen ==
    /\ last_block = None
    /\ ~is_zero(origin)
    /\ \E c \in Candidates :
        is_genesis(c) /\ PassesOwnRules(c) /\ c.hash # origin
        /\ check_new_block(c) = "Bad"
    /\ \E c \in Candidates :
        is_genesis(c) /\ PassesOwnRules(c) /\ c.hash = origin
        /\ check_new_block(c) = "Good"
    /\ \E c \in Candidates :
        ~is_genesis(c) /\ PassesOwnRules(c) /\ check_new_block(c) = "Future"

(* a locker candidate that passes rules 1 to 5 and extends the head *)
LockerExtendsHead(c) ==
    /\ last_block # None
    /\ c.transaction = None
    /\ check_block_itself(c)
    /\ c.index = last_block[1].index + 1
    /\ c.timestamp >= last_block[1].timestamp

(* C10: a locker candidate that passes the earlier rules and extends the    *)
(* head is Bad exactly when the election, run on the stored block one below *)
(* it at the candidate's timestamp, names a key other than the candidate's  *)
(* pub_key, and Good when it names no key or the candidate's own.           *)
LockerRule ==
    \A c \in Candidates :
        LockerExtendsHead(c) =>
            /\ get_block(c.index - 1) # None
            /\ LET locker == get_block_locker(get_block(c.index - 1)[1], c.timestamp)
               IN  check_new_block(c) =
                       IF locker # None /\ locker[1] # c.pub_key
                       THEN "Bad" ELSE "Good"

(* C10 witness: the election names a key; the locker block of another key   *)
(* is Bad and the locker block of the named key is Good.                    *)
LockerRuleSeen ==
    /\ last_block # None
    /\ last_block[1].index >= LOCKER_BLOCK_START
    /\ \E c \in Candidates :
        /\ LockerExtendsHead(c)
        /\ check_new_block(c) = "Bad"
        /\ \E d \in Candidates :
            /\ LockerExtendsHead(d)
            /\ d.timestamp = c.timestamp
            /\ d.pub_key # c.pub_key
            /\ get_block_locker(last_block[1], c.timestamp) = Some(d.pub_key)
            /\ check_new_block(d) = "Good"

(* C8: in every state, also after add_block stopped half way, the full     *)
(* blocks of the block store and the rows of the transaction store          *)
(* correspond: each full block has its transaction recorded, each recorded  *)
(* transaction has its block, and there are as many of one as of the other. *)
AtomicAppend ==
    LET full == { b \in db_blocks : b.transaction # None } IN
    /\ \A b \in full :
           \E i \in 1..Len(db_transactions) : db_transactions[i] = b.transaction[1]
    /\ \A i \in 1..Len(db_transactions) :
           \E b \in full : b.transaction[1] = db_transactions[i]
    /\ Cardinality(full) = Len(db_transactions)

-----------------------------------------------------------------------------
(* a caller's candidate gets its verdict in this step *)
VerdictIsGiven(c) ==
    /\ pending[c] # None
    /\ pending[c][1].quality = ""
    /\ pending'[c] # None
    /\ pending'[c][1].quality # ""

(* C11: a step in which check_new_block gives a verdict leaves the block    *)
(* store, the transaction index, last_block, last_full_block, max_height,   *)
(* the in-memory block list, the zone cache and the origin as they were,    *)
(* whatever the candidate and the verdict.                                  *)
ValidatorIsPure ==
    [][(\E c \in Callers : VerdictIsGiven(c)) =>
          UNCHANGED <<origin, blocks, last_block, last_full_block, max_height,
                      zones, db_blocks, db_transactions>>]_vars

(* C11 witness: against a chain with a head, a caller holds a verdict other *)
(* than Good of a candidate above the height noted so far.                  *)
ValidatedAndRejected ==
    \E c \in Callers :
        /\ last_block # None
        /\ pending[c] # None
        /\ pending[c][1].quality \in {"Bad", "Fork", "Twin", "Future"}
        /\ pending[c][1].block.index > max_height

-----------------------------------------------------------------------------
(* C12: whatever the candidate and the state, also while a read of the      *)
(* store fails, check_new_block ends with one of the five verdicts and      *)
(* never in a panic.                                                        *)
ValidationNeverFatal ==
    \A c \in Candidates : check_new_block_outcome(c) \in Verdicts

(* C13: while the store fails, a call of check_new_block that reads it does *)
(* not answer Good, and get_block does not answer "no such block" for an    *)
(* index that is stored.                                                    *)
StoreFailureNotPermissive ==
    store # "ok" =>
        /\ \A c \in Candidates :
               check_new_block_reads(c) => check_new_block_outcome(c) # "Good"
        /\ \A r \in db_blocks : get_block(r.index) # None

-----------------------------------------------------------------------------
(* the chain and the store are the same before and after the step *)
SameChain ==
    UNCHANGED <<origin, blocks, last_block, last_full_block, max_height, zones,
                db_blocks, db_transactions>>

(* C14 as stated: two calls of check_new_block with the same candidate      *)
(* against the same chain state give the same verdict.                      *)
IdempotentOnChain ==
    [][SameChain =>
          \A c \in Candidates : check_new_block(c)' = check_new_block(c)]_vars

(* C14 amended: two calls of check_new_block with the same candidate        *)
(* against the same chain state give the same verdict, unless the           *)
(* candidate's timestamp was ahead of the clock at the first call and is    *)
(* not at the second.                                                       *)
IdempotentUnlessDue ==
    [][SameChain =>
          \A c \in Candidates :
              (c.timestamp <= now \/ c.timestamp > now') =>
                  check_new_block(c)' = check_new_block(c)]_vars

(* C14 witness: the clock has advanced over a chain with a head; a          *)
(* candidate of the earlier instant extends the head and is Good now as it  *)
(* was before, and a candidate of the present instant is Good too.          *)
ClockAdvancedOverChain ==
    /\ now > 0
    /\ last_block # None
    /\ last_block[1].timestamp < now
    /\ \E c \in Candidates :
           /\ c.timestamp < now
           /\ c.index = last_block[1].index + 1
           /\ check_new_block(c) = "Good"
    /\ \E c \in Candidates :
           /\ c.timestamp = now
           /\ c.index = last_block[1].index + 1
           /\ check_new_block(c) = "Good"

-----------------------------------------------------------------------------
(* a block appended by add_block carries a transaction for the zone *)
ZoneAppended(zone) ==
    \E b \in accepted :
        /\ b.transaction # None
        /\ b.transaction[1].identity = hash_identity(zone)

(* the transaction store holds a transaction for the zone *)
ZoneRecorded(zone) ==
    \E i \in 1..Len(db_transactions) :
        db_transactions[i].identity = hash_identity(zone)

(* C15: once a transaction for hash_identity(zone) has been appended,       *)
(* is_zone_in_blockchain(zone) is true; it is true only if the store holds  *)
(* such a transaction, so every cached zone has one; once true it stays     *)
(* true in every later state, also across a restart; and no entry leaves    *)
(* the cache while the process runs.                                        *)
ZoneMonotonic ==
    /\ [](\A zone \in ZoneNames :
             /\ ZoneAppended(zone) => is_zone_in_blockchain(zone)
             /\ is_zone_in_blockchain(zone) => ZoneRecorded(zone))
    /\ [](\A zone \in zones : ZoneRecorded(zone))
    /\ [][\A zone \in ZoneNames :
             is_zone_in_blockchain(zone) => is_zone_in_blockchain(zone)']_vars
    /\ [][(running /\ running') => zones \subseteq zones']_vars

(* C15 witness: one registered zone is in the cache, another registered     *)
(* zone has not been asked about yet, and a third name is no zone.          *)
ZoneCachedAndZoneNotYet ==
    /\ \E zone \in ZoneNames : zone \in zones /\ ZoneAppended(zone)
    /\ \E zone \in ZoneNames : zone \notin zones /\ is_zone_in_blockchain(zone)
    /\ \E zone \in ZoneNames : ~is_zone_in_blockchain(zone)

(* number of dot-separated levels of a name *)
Levels(name) == 1 + Cardinality({ i \in 1..Len(name) : name[i] = "." })

(* C16: is_domain_available is false for every domain of three or more      *)
(* dot-separated levels, for every key and in every state.                  *)
ThirdLevelUnavailable ==
    \A domain \in Domains : \A public_key \in Keys :
        Levels(domain) >= 3 => ~is_domain_available(domain, public_key)

(* C16 witness: a domain of three levels whose identity is free for the key *)
(* and whose top-level zone is registered and cached is not available,      *)
(* while a domain of two levels under the same zone is.                     *)
ThirdLevelUnderRegisteredZone ==
    \E domain \in Domains : \E public_key \in Keys :
        /\ Levels(domain) = 3
        /\ is_id_available(hash_identity(domain), public_key)
        /\ rsplitn_2(domain)[1] \in zones
        /\ ~is_domain_available(domain, public_key)
        /\ \E other \in Domains :
               /\ Levels(other) = 2
               /\ rsplitn_2(other)[1] = rsplitn_2(domain)[1]
               /\ is_domain_available(other, public_key)

-----------------------------------------------------------------------------
(* the stored block with the highest index among rows *)
Highest(rows) ==
    IF rows = {} THEN None
    ELSE Some(CHOOSE r \in rows : \A q \in rows : q.index <= r.index)

(* C17: while the process runs, after startup and after every append of a   *)
(* Good block, also after a restart, last_block is the stored block with    *)
(* the highest index and last_full_block is the stored block with the       *)
(* highest index among those that carry a transaction.                      *)
CacheCoherence ==
    running =>
        /\ last_block = Highest(db_blocks)
        /\ last_full_block =
               Highest({ r \in db_blocks : r.transaction # None })

(* C17 witness: the process was started again on a store whose head is a    *)
(* locker block above a full block, and init_db has loaded both caches.     *)
RestartedBelowLockerHead ==
    /\ running
    /\ blocks = <<>>
    /\ last_block # None
    /\ last_block[1].transaction = None
    /\ last_full_block # None
    /\ last_full_block[1].index < last_block[1].index

-----------------------------------------------------------------------------
(* C18: from the empty chain, appending only blocks classified Good, the    *)
(* stored indices are exactly 0 .. head, every index holds one block, the   *)
(* cached head carries the highest index, and the blocks were appended in   *)
(* the order of their indices, each one above the head before it.           *)
NoGapsNoDuplicates ==
    /\ { r.index : r \in db_blocks } = 0..(Cardinality(db_blocks) - 1)
    /\ \A r, q \in db_blocks : r.index = q.index => r = q
    /\ last_block # None => last_block[1].index = Cardinality(db_blocks) - 1
    /\ Len(blocks) = Cardinality(db_blocks)
    /\ \A i \in 1..Len(blocks) : blocks[i].index = i - 1 /\ blocks[i] \in db_blocks

(* C18 witness: the chain has grown to the bound, with a registration in    *)
(* it, and candidates at and below the head and above the next index are    *)
(* turned down.                                                             *)
ChainGrownToBound ==
    /\ Len(blocks) = MaxHeight + 1
    /\ Len(db_transactions) > 0
    /\ \A c \in Candidates :
           c.index # last_block[1].index + 1 => check_new_block(c) # "Good"

-----------------------------------------------------------------------------
(* get_block_locker gets to the computation of the start index for block *)
ReachesStart(block) ==
    /\ ~is_zero(block.hash)
    /\ block.index >= LOCKER_BLOCK_START
    /\ ~( /\ get_last_full_block # None
          /\ get_last_full_block[1].index + LOCKER_BLOCK_COUNT <= block.index )

(* the start index as the formula gives it over the integers, for a         *)
(* timestamp that is not before the block's                                 *)
StartOverIntegers(block, timestamp) ==
    LET intervals == (timestamp - block.timestamp) \div LOCKER_BLOCK_INTERVAL
        tail == get_tail_u64(block.hash)
    IN  1 + ((tail + tail * intervals) % (block.index - 2))

(* the stored blocks from index start up to the one below block whose key   *)
(* is not the key of block                                                  *)
OthersFrom(block, start) ==
    { r \in db_blocks :
        /\ start <= r.index
        /\ r.index < block.index
        /\ r.pub_key # block.pub_key }

(* C19: when get_block_locker gets to the start computation for the head B  *)
(* at a timestamp not before B's, B.index is above 2, the start index is    *)
(* 1 + (tail + tail * intervals) mod (B.index - 2) computed over the        *)
(* integers, it lies in 1 .. B.index - 2, and the answer is the key of the  *)
(* stored block of lowest index from the start to B.index - 1 whose key is  *)
(* not B's, or no key when there is none.                                   *)
LockerStartExact ==
    last_block # None =>
        LET B == last_block[1] IN
        \A t \in B.timestamp..MaxTime :
            ReachesStart(B) =>
                LET start == locker_start_index(B, t)
                    others == OthersFrom(B, start)
                IN  /\ B.index > 2
                    /\ start = StartOverIntegers(B, t)
                    /\ start \in 1..(B.index - 2)
                    /\ get_block_locker(B, t) =
                           IF others = {} THEN None
                           ELSE Some((CHOOSE r \in others :
                                        \A q \in others : r.index <= q.index).pub_key)

-----------------------------------------------------------------------------
(* check_new_block calls get_block_locker(last_block, c.timestamp) *)
LockerInvoked(c) ==
    /\ last_block # None
    /\ check_block_itself(c)
    /\ check_identity(c)
    /\ check_linkage(c, last_block[1]) = ""
    /\ c.transaction = None

(* C20: whenever check_new_block runs the election with B = last_block and  *)
(* t = the candidate's timestamp, t - B.timestamp is not negative, and the  *)
(* interval count converted to u64 is the quotient itself.                  *)
IntervalsNonNegative ==
    \A c \in Candidates :
        LockerInvoked(c) =>
            /\ c.timestamp - last_block[1].timestamp >= 0
            /\ locker_intervals(last_block[1], c.timestamp) =
                   (c.timestamp - last_block[1].timestamp) \div LOCKER_BLOCK_INTERVAL

(* C20 witness: the head is old enough for an election and younger than     *)
(* some candidates; the election is run for a locker candidate of the       *)
(* head's instant, and locker candidates older than the head, above it and  *)
(* at its index, get their verdict without it.                              *)
ElectionOnlyForYounger ==
    /\ last_block # None
    /\ ReachesStart(last_block[1])
    /\ last_block[1].timestamp > 0
    /\ \E c \in Candidates :
           /\ LockerInvoked(c)
           /\ c.timestamp = last_block[1].timestamp
    /\ \E c \in Candidates :
           /\ c.transaction = None
           /\ check_block_itself(c)
           /\ c.timestamp < last_block[1].timestamp
           /\ c.index = last_block[1].index + 1
           /\ ~LockerInvoked(c)
    /\ \E c \in Candidates :
           /\ c.transaction = None
           /\ check_block_itself(c)
           /\ c.timestamp < last_block[1].timestamp
           /\ c.index = last_block[1].index
           /\ c.hash # last_block[1].hash
           /\ ~LockerInvoked(c)

-----------------------------------------------------------------------------
(* C21: while the process runs, after any sequence of init_db, add_block    *)
(* and update_max_height, max_height is at least height, the index of the   *)
(* cached head, and max_height never decreases.                             *)
MaxHeightIsBest ==
    /\ [](running => max_height >= height)
    /\ [][(running /\ running') => max_height' >= max_height]_vars

====
